---- MODULE Spec2Model ----
(***************************************************************************)
(* Model of setup_orgo_vault.py: the compilation of the file, the          *)
(* module-level credential check, and the entry into main() or into a      *)
(* function imported from the module.                                      *)
(*                                                                         *)
(* The file does not compile: the literal that line 197 opens with three   *)
(* double quotes is closed by the docstring of line 231, and what follows  *)
(* is a SyntaxError.  Python compiles a file before it runs any of it, so  *)
(* no line of the file runs, whatever the environment holds and however    *)
(* the module is used: the only step of the program is module_load, and    *)
(* it ends in the SyntaxError.                                             *)
(*                                                                         *)
(* The inputs of a run are the value of ORGO_API_KEY, the way the module   *)
(* is used, and the remote session: which commands it answers with a       *)
(* non-zero exit status, on which poll of the install log it shows the     *)
(* sentinel, and which call (if any) it makes raise.  The session is fixed *)
(* before the run; the properties of a run are stated against it.          *)
(***************************************************************************)
EXTENDS Integers, Sequences, FiniteSets, TLC

VARIABLES
    source,         \* the text of the file that is run
    entry,          \* how the module is used: run as a script, or imported
                    \* by a caller of generate_ssh_key
    ORGO_API_KEY,   \* value of os.environ.get("ORGO_API_KEY")
    session,        \* what the remote session does when it is called
    pc,             \* where the program is
    trace,          \* calls issued so far: Computer, sleep, bash, screenshot, save
    out,            \* messages printed so far
    exc             \* exception leaving the process ("None" while there is none)

vars == <<source, entry, ORGO_API_KEY, session, pc, trace, out, exc>>

\* ------------------------------------------------------------------ bounds
\* The sessions considered answer at most MaxFail distinct commands with a
\* non-zero exit status.
MaxFail == 2

\* ------------------------------------------------------------ compilation
\* The quote that opens the literal assigned to example_script (line 197).
LiteralQuote == "\"\"\""

\* The file, by the quote around the docstring of line 231, which sits
\* inside that literal.
GivenSource == [line231 |-> "\"\"\""]

\* Python compiles the whole file before it runs any of it.  A quote equal
\* to the opening one ends the literal; the words after it are then code,
\* and they do not parse.
Compiles(src) == src.line231 # LiteralQuote

\* `if __name__ == "__main__": main()` (lines 395-396): main runs when the
\* file is run as a script; a caller that imports the module gets the
\* functions, of which generate_ssh_key is called by nothing in the file.
Entries == {"__main__", "generate_ssh_key"}

\* ------------------------------------------------------- values and inputs
\* os.environ.get gives None (set = FALSE) or a string.
EnvValues ==
    { [set |-> FALSE, val |-> ""],
      [set |-> TRUE,  val |-> ""],
      [set |-> TRUE,  val |-> "sk_live_test"] }

\* Python truth value of an Optional[str]: None and "" are falsy.
Truthy(v) == v.set /\ v.val # ""

\* The exceptions a call may raise: caught by `except Exception` or not.
ExcKinds == {"Exception", "BaseException"}

\* ---------------------------------------------------------------- commands
SysCommands ==
    << "sudo apt-get update -qq",
       "sudo apt-get install -y -qq python3 python3-pip python3-venv git curl wget unzip",
       "sudo apt-get install -y -qq build-essential libssl-dev libffi-dev" >>

GitCommands ==
    << "git config --global user.name \"Samantha AI\"",
       "git config --global user.email \"samantha@example.com\"",
       "git config --global init.defaultBranch main",
       "mkdir -p ~/.ssh && ssh-keyscan github.com >> ~/.ssh/known_hosts 2>/dev/null || true" >>

VAULT_REPO_URL == "https://github.com/Prakshal-Jain/example-vault.git"
RmCmd     == "rm -rf ~/vault"
clone_cmd == "git clone https://github.com/Prakshal-Jain/example-vault.git ~/vault"

TestReqCmd == "test -f ~/vault/requirements.txt && echo 'EXISTS' || echo 'NOT_FOUND'"
PipReqCmd  == "cd ~/vault && pip3 install -r requirements.txt --break-system-packages"

heredoc_cmd == "cat > /tmp/install-browser-use.sh << 'SCRIPT_EOF' ..."
ChmodInstallCmd == "chmod +x /tmp/install-browser-use.sh"
LaunchCmd == "nohup /tmp/install-browser-use.sh > /tmp/browser-use-install.log 2>&1 &"
PollCmd   == "grep -q \"INSTALL_COMPLETE\" /tmp/browser-use-install.log 2>/dev/null && echo \"DONE\" || echo \"PENDING\""
VerifyCmd == "~/browser-use-env/bin/python -c \"import browser_use; print('Verified')\""
TailCmd   == "tail -20 /tmp/browser-use-install.log"

example_heredoc == "cat > /root/browser-use-example.py << 'EXAMPLE_EOF' ..."
ChmodExampleCmd == "chmod +x /root/browser-use-example.py"
PipLangchainCmd == "~/browser-use-env/bin/pip install langchain-anthropic"

SshKeygenCmd == "test -f ~/.ssh/id_ed25519 || ssh-keygen -t ed25519 -f ~/.ssh/id_ed25519 -N \"\" -C \"orgo-vm\""
SshCatCmd    == "cat ~/.ssh/id_ed25519.pub"

ScreenshotFile == "vault-setup.png"

max_attempts  == 60
PollInterval  == 10
StartupWait   == 15
ProgressEvery == 6

\* The shell commands of the file: those of the stages of main, and those
\* of generate_ssh_key.
SshCmds == {SshKeygenCmd, SshCatCmd}

KnownCmds ==
    {SysCommands[x] : x \in DOMAIN SysCommands}
    \cup {GitCommands[x] : x \in DOMAIN GitCommands}
    \cup {RmCmd, clone_cmd, TestReqCmd, PipReqCmd}
    \cup {heredoc_cmd, ChmodInstallCmd, LaunchCmd, PollCmd, VerifyCmd, TailCmd}
    \cup {example_heredoc, ChmodExampleCmd, PipLangchainCmd}

\* ------------------------------------------------------ calls and messages
Bash(cmd)   == [op |-> "bash",       cmd |-> cmd, secs |-> 0]
Sleep(n)    == [op |-> "sleep",      cmd |-> "",  secs |-> n]
NewComputer == [op |-> "Computer",   cmd |-> "samantha-vault-vm", secs |-> 0]
Shot        == [op |-> "screenshot", cmd |-> "",  secs |-> 0]
SaveShot    == [op |-> "save",       cmd |-> ScreenshotFile, secs |-> 0]

\* A printed line: its fixed text and the value interpolated into it.
M(m) == [m |-> m, a |-> ""]

\* ------------------------------------------------------------- the session
\* The sets of at most n elements of S.
RECURSIVE SetsUpTo(_, _)
SetsUpTo(S, n) ==
    IF n = 0 THEN {{}}
    ELSE LET P == SetsUpTo(S, n - 1) IN P \cup {p \cup {x} : p \in P, x \in S}

\* result.get('exit_code') of a command: non-zero for the commands of
\* `fails`, 0 for the others.
FailSets == SetsUpTo(KnownCmds \cup SshCmds, MaxFail)

\* The poll of the install log whose output first contains DONE
\* (0: none does).
SentinelPolls == {0, 1, 2, 7, max_attempts}

\* The call that raises, and what it raises.  The calls taken are calls
\* that main makes whatever the exit codes are.
NoCall     == [op |-> "none", cmd |-> "", secs |-> 0]
RaiseCalls == {Bash(SysCommands[1]), Bash(clone_cmd), Shot}
RaisePlans ==
    {[call |-> NoCall, kind |-> "None"]} \cup [call : RaiseCalls, kind : ExcKinds]

Sessions == [fails : FailSets, sentinel_at : SentinelPolls, raises : RaisePlans]

\* ------------------------------------------------------------------ Init
Init ==
    /\ source = GivenSource
    /\ entry \in Entries
    /\ ORGO_API_KEY \in EnvValues
    /\ session \in Sessions
    /\ pc = "module"
    /\ trace = <<>>
    /\ out = <<>>
    /\ exc = "None"

\* A load that neither compiles the file first nor looks at the credential.
module_load_mut ==
    /\ pc = "module"
    /\ IF entry = "__main__"
       THEN /\ pc' = "main"
            /\ out' = out \o << M("Starting Orgo VM Setup with Vault and Browser-Use"),
                                M("Creating Orgo computer...") >>
       ELSE /\ pc' = "generate_ssh_key_keygen"
            /\ out' = out \o <<M("Generating SSH key...")>>
    /\ UNCHANGED <<source, entry, ORGO_API_KEY, session, trace, exc>>

\* The file is compiled (a SyntaxError when it does not parse: nothing of
\* it has run); then the module body runs: the credential is read and
\* checked (lines 20-26), and, run as a script, main is entered (line 396).
module_load ==
    /\ pc = "module"
    /\ IF ~Compiles(source)
       THEN /\ pc' = "raised"
            /\ exc' = "SyntaxError"
            /\ UNCHANGED out
       ELSE IF ~Truthy(ORGO_API_KEY)
       THEN /\ pc' = "raised"
            /\ exc' = "ValueError"
            /\ UNCHANGED out
       ELSE IF entry = "__main__"
       THEN /\ pc' = "main"
            /\ out' = out \o << M("Starting Orgo VM Setup with Vault and Browser-Use"),
                                M("Creating Orgo computer...") >>
            /\ UNCHANGED exc
       ELSE /\ pc' = "generate_ssh_key_keygen"
            /\ out' = out \o <<M("Generating SSH key...")>>
            /\ UNCHANGED exc
    /\ UNCHANGED <<source, entry, ORGO_API_KEY, session, trace>>

\* -------------------------------------------------------------------- Next
\* Compilation fails, so the load is the only step the program takes.
Next == module_load

Spec == Init /\ [][Next]_vars

\* --------------------------------------------------------- reading a run
Issued(cmd)   == LET b == Bash(cmd) IN \E j \in 1..Len(trace) : trace[j] = b
CountCmd(cmd) == LET b == Bash(cmd) IN Cardinality({j \in 1..Len(trace) : trace[j] = b})
CountOp(op)   == Cardinality({j \in 1..Len(trace) : trace[j].op = op})
Printed(m)    == \E j \in 1..Len(out) : out[j].m = m
PollCount     == CountCmd(PollCmd)

\* The commands issued so far that the session answered with a non-zero
\* exit status.  A call that raises returns no result: it has no exit
\* status, whatever the session would have answered.
failed == {cmd \in session.fails : Issued(cmd) /\ Bash(cmd) # session.raises.call}

\* The first call of each stage of main.
StageRan(s) ==
    CASE s = "system"     -> Issued(SysCommands[1])
      [] s = "git"        -> Issued(GitCommands[1])
      [] s = "clone"      -> Issued(RmCmd)
      [] s = "deps"       -> Issued(TestReqCmd)
      [] s = "browser"    -> Issued(heredoc_cmd)
      [] s = "example"    -> Issued(example_heredoc)
      [] s = "screenshot" -> CountOp("screenshot") > 0

\* The commands of the first three stages.
SysSet   == {SysCommands[x] : x \in DOMAIN SysCommands}
GitSet   == {GitCommands[x] : x \in DOMAIN GitCommands}
CloneSet == {RmCmd, clone_cmd}

\* The program has ended: main returned, generate_ssh_key returned, or an
\* exception left the process.
Terminated == pc \in {"done", "returned", "raised"}

\* main returned normally / the poll loop ran out / the sentinel was seen /
\* main has called setup_browser_use_example.
Returned       == pc = "done" /\ exc = "None"
TimedOut       == Printed("Installation timed out. Last log entries:")
SentinelHit    == Printed("browser-use installed successfully")
ExampleEntered == Printed("Creating browser-use example script...")

RECURSIVE LastPollUpTo(_)
LastPollUpTo(j) ==
    IF j = 0 THEN 0
    ELSE IF trace[j].cmd = PollCmd THEN j ELSE LastPollUpTo(j - 1)

\* The position of the last poll in the trace (0 when there is none).
LastPollIdx == LastPollUpTo(Len(trace))

BashSeq(cmds) == [j \in 1..Len(cmds) |-> Bash(cmds[j])]
Polls(k) ==
    [j \in 1..(2 * k) |-> IF j % 2 = 1 THEN Sleep(PollInterval) ELSE Bash(PollCmd)]

\* The calls of a complete run with k polls.
FullRun(k, withPip) ==
    <<NewComputer, Sleep(StartupWait)>>
    \o BashSeq(SysCommands)
    \o BashSeq(GitCommands)
    \o BashSeq(<<RmCmd, clone_cmd, TestReqCmd>>)
    \o (IF withPip THEN <<Bash(PipReqCmd)>> ELSE <<>>)
    \o BashSeq(<<heredoc_cmd, ChmodInstallCmd, LaunchCmd>>)
    \o Polls(k)
    \o BashSeq(<<VerifyCmd, example_heredoc, ChmodExampleCmd, PipLangchainCmd>>)
    \o <<Shot, SaveShot>>

\* The calls every run of main starts with, up to the clone.
FirstCalls ==
    <<NewComputer, Sleep(StartupWait)>>
    \o BashSeq(SysCommands)
    \o BashSeq(GitCommands)
    \o BashSeq(<<RmCmd, clone_cmd>>)

\* The finally clause of main printed its notice last.
FinallyNotice ==
    /\ Len(out) >= 2
    /\ out[Len(out) - 1] = M("Computer left running. Destroy it manually when done:")
    /\ out[Len(out)] = M("computer.destroy() or DELETE <url>")

\* The progress lines printed so far, in order.
ProgressMsgs == SelectSeq(out, LAMBDA x : x.m = "Still installing...")

\* Time slept in the calls trace[from..to].
RECURSIVE SumSecs(_, _)
SumSecs(from, to) ==
    IF to < from THEN 0 ELSE trace[to].secs + SumSecs(from, to - 1)

\* Time slept since the background install was launched.
LaunchIdx == CHOOSE j \in 1..Len(trace) : trace[j] = Bash(LaunchCmd)
PollWait  == IF Issued(LaunchCmd) THEN SumSecs(LaunchIdx + 1, Len(trace)) ELSE 0

\* ------------------------------------------------- reading a run by the plan
\* The program is run as a script with the credential set, and has ended.
MainEnded ==
    /\ entry = "__main__"
    /\ Truthy(ORGO_API_KEY)
    /\ Terminated

\* No call of the session raises.
NoRaise == session.raises.kind = "None"

\* The browser-use stage gets as far as its poll loop: the script write and
\* the chmod return exit status 0.
LoopReached == {heredoc_cmd, ChmodInstallCmd} \cap session.fails = {}

\* The polls that come back without the sentinel.
PlannedPending ==
    IF session.sentinel_at = 0 THEN max_attempts ELSE session.sentinel_at - 1

C7_MissingKeyRaisesFirst ==
    (~ORGO_API_KEY.set \/ ORGO_API_KEY.val = "") =>
        /\ trace = <<>>
        /\ out = <<>>
        /\ pc \in {"module", "raised"}
        /\ pc = "raised" =>
              exc = IF Compiles(source) THEN "ValueError" ELSE "SyntaxError"

\* The credential is unset or empty and the process has raised, with no
\* call issued.
C7_Witness ==
    /\ ~Truthy(ORGO_API_KEY)
    /\ entry = "__main__"
    /\ pc = "raised"
    /\ exc \in {"SyntaxError", "ValueError"}
    /\ trace = <<>>

\* -------------------------------------------------------------------- C8
\* C8: a run of the script with the credential set in which every command
\* returned exit status 0, no call raised and the poll loop did not run out
\* (the sentinel showed on poll k) ends with main returning: it has issued
\* exactly the calls of the full sequence with k polls (k in 1..60), has
\* written the example script and saved the screenshot, and has printed
\* "Setup complete!".
C8_AllSuccessCompletes ==
    (/\ entry = "__main__"
     /\ Truthy(ORGO_API_KEY)
     /\ Terminated
     /\ failed = {}
     /\ exc \notin ExcKinds
     /\ ~TimedOut)
    =>
        /\ pc = "done"
        /\ exc = "None"
        /\ SentinelHit
        /\ PollCount \in 1..60
        /\ trace \in {FullRun(PollCount, TRUE), FullRun(PollCount, FALSE)}
        /\ Printed("Example script created at ~/browser-use-example.py")
        /\ Printed("Screenshot saved to")
        /\ Printed("Setup complete!")

====
